---- MODULE Spec2Model ----
(***************************************************************************)
(* ReplSetDistLockManager (src/mongo/s/catalog/replset/                    *)
(* replset_dist_lock_manager.cpp): distributed locks kept in a catalog,    *)
(* acquired by a polling loop, released synchronously or, when the         *)
(* release fails, by a background task that retries a queue of session     *)
(* ids.                                                                    *)
(*                                                                         *)
(* Spec          manager m1 with startUp, shutDown and its background    *)
(*               task, its caller, and a caller of manager m2, all        *)
(*               interleaved, against one shared catalog.                  *)
(* SpecLock      the callers alone: lock calls with the wait budget and   *)
(*               the retry interval drawn from ranges, and unlock; the    *)
(*               clock of a call is advanced by its sleeps.               *)
(* FairSpecLock  SpecLock with weak fairness of the steps of a lock call. *)
(* SpecCheck     the callers alone: lock, unlock and checkStatus.         *)
(* SpecTask      manager m1 with startUp, shutDown and its background     *)
(*               task, and its caller.                                    *)
(* FairSpecTask  SpecTask with weak fairness of the background thread and *)
(*               of the thread inside shutDown.                           *)
(* FairSpecRetry FairSpecTask with a catalog unlock that succeeds in the  *)
(*               end when it is retried.                                  *)
(***************************************************************************)
EXTENDS Integers, Sequences, FiniteSets, TLC

(* ------------------------------------------------------------------ *)
(* Bounds                                                               *)
(* ------------------------------------------------------------------ *)

\* OID::gen() is capped: at most MaxOID session ids are minted in a run of
\* Spec, at most MaxLockOID in a run of SpecLock or SpecCheck.
MaxOID == 2

MaxLockOID == 3

\* At most MaxTaskOID session ids are minted in a run of SpecTask.
MaxTaskOID == 2

\* Largest waitFor (in clock ticks) a lock call of SpecLock is given.
MaxWaitFor == 2

\* Largest lockTryInterval (in clock ticks) a lock call of SpecLock is given.
MaxTryInterval == 2

(* ------------------------------------------------------------------ *)
(* Values                                                               *)
(* ------------------------------------------------------------------ *)

Managers == {"m1", "m2"}

\* Caller threads; each uses one manager.
Callers == {"c1", "c2"}

managerOf(c) == IF c = "c1" THEN "m1" ELSE "m2"

LockNames == {"migration-lock"}

NoOID == 0

OIDs == 1..(IF MaxOID > MaxLockOID THEN MaxOID ELSE MaxLockOID)

OK == "OK"

LockStateChangeFailed == "LockStateChangeFailed"

LockBusy == "LockBusy"

LockNotFound == "LockNotFound"

\* Statuses a catalog call can fail with when the outcome of the write is unknown.
NetworkTimeout == "NetworkTimeout"

NotMaster == "NotMaster"

CatalogErrors == {NetworkTimeout, NotMaster}

NoStatus == "none"

VARIABLES
    \* the catalog
    lockDoc,        \* [LockNames -> OIDs \cup {NoOID}]: ts of the lock document
    nextOID,        \* the next id OID::gen() returns
    \* ReplSetDistLockManager members
    isShutDown,     \* _isShutDown
    unlockList,     \* _unlockList
    execThread,     \* _execThread: "null" or "joinable"
    \* doTask
    taskPc,         \* position of the background task
    toUnlockBatch,  \* its local batch
    batchIdx,       \* index of the batch entry the for loop is at
    cvNotified,     \* a notify_all arrived while the task waits on _shutDownCV
    \* shutDown / startUp
    sdPc,           \* position of the thread running shutDown
    sdCalls,        \* shutDown calls that returned: 0, 1, or 2 for two and more
    started,        \* startUp was called
    \* callers
    cpc,            \* position of the caller thread
    callArgs,       \* arguments of the lock call in progress (or last made)
    timer,          \* Timer timer: ticks since the lock call began
    lockSessionID,  \* the id minted for the current attempt
    result,         \* what the last call returned
    handle,         \* the handle the caller got from its last successful lock
    unlockCalled,   \* the caller has passed that handle to unlock
    \* history
    trace,          \* events of the caller's lock call in progress (or last made)
    hist            \* bookkeeping over the whole run (see Init)

catVars == <<lockDoc, nextOID>>

mgrVars == <<isShutDown, unlockList, execThread>>

taskVars == <<taskPc, toUnlockBatch, batchIdx, cvNotified>>

sdVars == <<sdPc, sdCalls, started>>

callVars == <<cpc, callArgs, timer, lockSessionID, result, handle, unlockCalled>>

vars == <<catVars, mgrVars, taskVars, sdVars, callVars, trace, hist>>

(* ------------------------------------------------------------------ *)
(* The catalog (DistLockCatalog): one atomic operation per call         *)
(* ------------------------------------------------------------------ *)

\* A catalog call returns a status; "applied" says whether its write reached
\* the store. A call that fails with a catalog error may or may not have
\* written.
Outcome(status, applied) == [status |-> status, applied |-> applied]

\* grabLock is a compare-and-set on the lock document of the name: it writes
\* only when no session holds the lock and rejects cleanly otherwise.
GrabOutcomes(doc) ==
    IF doc = NoOID
    THEN {Outcome(OK, TRUE)}
         \cup {Outcome(e, a) : e \in CatalogErrors, a \in BOOLEAN}
    ELSE {Outcome(LockStateChangeFailed, FALSE)}
         \cup {Outcome(e, FALSE) : e \in CatalogErrors}

GrabApply(docs, name, id, out) ==
    IF out.applied THEN [docs EXCEPT ![name] = id] ELSE docs

\* unlock removes the lock document whose ts is the handle, if there is one.
UnlockOutcomes ==
    {Outcome(OK, TRUE)} \cup {Outcome(e, a) : e \in CatalogErrors, a \in BOOLEAN}

UnlockApply(docs, id, out) ==
    IF out.applied
    THEN [n \in DOMAIN docs |-> IF docs[n] = id THEN NoOID ELSE docs[n]]
    ELSE docs

\* getLockByTS finds the lock document whose ts is the handle; a document
\* written by grabLock has all its fields, so it is valid.
LookupOutcomes(docs, id) ==
    (IF \E n \in DOMAIN docs : docs[n] = id
     THEN {[status |-> OK, valid |-> TRUE]}
     ELSE {[status |-> LockNotFound, valid |-> FALSE]})
    \cup {[status |-> e, valid |-> FALSE] : e \in CatalogErrors}

\* ping and stopPing write the ping document of the process, which no
\* operation of the manager reads; only their status comes back.
PingStatuses == {OK} \cup CatalogErrors

(* ------------------------------------------------------------------ *)
(* Pieces of the manager's code                                         *)
(* ------------------------------------------------------------------ *)

Min(a, b) == IF a < b THEN a ELSE b

Max(a, b) == IF a > b THEN a ELSE b

\* The loop condition gone wrong: the test for a waitFor of zero or less is
\* missing.
LoopContinuesWithinBudget(waitFor, elapsed) == elapsed < waitFor

\* while (waitFor <= milliseconds::zero() || milliseconds(timer.millis()) < waitFor)
LoopContinues(waitFor, elapsed) == waitFor <= 0 \/ elapsed < waitFor

\* LockBranch gone wrong: every failure of grabLock is retried.
LockBranchRetriesAll(status) == IF status = OK THEN "acquired" ELSE "rejected"

\* LockBranch gone wrong: a clean rejection is taken for an acquisition.
LockBranchRejectAcquires(status) ==
    IF status \in {OK, LockStateChangeFailed} THEN "acquired" ELSE "ambiguous"

\* LockBranch gone wrong: a clean rejection is handled as an ambiguous
\* failure and its id is queued for unlock.
LockBranchQueuesRejected(status) ==
    IF status = OK THEN "acquired" ELSE "ambiguous"

\* The three ways lock goes on after grabLock returned.
LockBranch(status) ==
    IF status = OK THEN "acquired"
    ELSE IF status # LockStateChangeFailed THEN "ambiguous"
    ELSE "rejected"

\* The break of line 155 gone wrong: never taken, and always taken.
BreaksNever(waitFor) == FALSE

BreaksAlways(waitFor) == TRUE

\* if (waitFor == milliseconds::zero()) break;
BreaksAfterReject(waitFor) == waitFor = 0

\* The sleep gone wrong: the whole interval, whatever is left of the budget.
SleepTimeUncapped(waitFor, lockTryInterval, elapsed) == lockTryInterval

\* sleepFor(std::min(lockTryInterval, std::max(zero, waitFor - timer.millis())))
SleepTime(waitFor, lockTryInterval, elapsed) ==
    Min(lockTryInterval, Max(0, waitFor - elapsed))

\* _unlockList.push_back(lockSessionID), under _mutex
queueUnlock(list, id) == Append(list, id)

\* The test of the unlock status gone wrong: the negation is missing.
UnlockFailedInverted(status) == status = OK

\* if (!unlockStatus.isOK()) queueUnlock(...), in unlock and in doTask
UnlockFailed(status) == status # OK

\* The test before the join gone wrong: the thread handle is not looked at,
\* and the join is never made.
JoinNeededAlways(thread) == TRUE

JoinNeededNever(thread) == FALSE

\* if (_execThread && _execThread->joinable())
JoinNeeded(thread) == thread = "joinable"

\* checkStatus gone wrong: a failed lookup is not propagated.
CheckStatusIgnoresLookup(lookup) == OK

\* checkStatus, from the result of getLockByTS
CheckStatusResult(lookup) ==
    IF lookup.status # OK THEN lookup.status
    ELSE IF ~lookup.valid THEN LockNotFound
    ELSE OK

\* The session id gone wrong: minted once per call, and used again by the
\* retries of the call.
AttemptOIDReused(last, fresh) == IF last # NoOID THEN last ELSE fresh

\* OID lockSessionID = OID::gen(), line 129, inside the loop: the id of an
\* attempt is the one just minted, whatever the id of the attempt before.
AttemptOID(last, fresh) == fresh

\* An event of a call, kept in trace.
Event(ev, id, status, dur, at) ==
    [ev |-> ev, id |-> id, status |-> status, dur |-> dur, at |-> at]

Result(op, status, id) == [op |-> op, status |-> status, id |-> id]

NoArgs == [name |-> "", waitFor |-> 0, lockTryInterval |-> 0]

Ids(seq) == {seq[i] : i \in 1..Len(seq)}

\* The entries of a batch the for loop has not finished with.
BatchRest(batch, idx) == {batch[i] : i \in idx..Len(batch)}

(* ------------------------------------------------------------------ *)
(* Initial state: managers constructed, startUp not yet called          *)
(* ------------------------------------------------------------------ *)

Init ==
    /\ lockDoc = [n \in LockNames |-> NoOID]
    /\ nextOID = 1
    /\ isShutDown = [m \in Managers |-> FALSE]
    /\ unlockList = [m \in Managers |-> <<>>]
    /\ execThread = [m \in Managers |-> "null"]
    /\ taskPc = [m \in Managers |-> "none"]
    /\ toUnlockBatch = [m \in Managers |-> <<>>]
    /\ batchIdx = [m \in Managers |-> 1]
    /\ cvNotified = [m \in Managers |-> FALSE]
    /\ sdPc = [m \in Managers |-> "idle"]
    /\ sdCalls = [m \in Managers |-> 0]
    /\ started = [m \in Managers |-> FALSE]
    /\ cpc = [c \in Callers |-> "idle"]
    /\ callArgs = [c \in Callers |-> NoArgs]
    /\ timer = [c \in Callers |-> 0]
    /\ lockSessionID = [c \in Callers |-> NoOID]
    /\ result = [c \in Callers |-> Result("none", NoStatus, NoOID)]
    /\ handle = [c \in Callers |-> NoOID]
    /\ unlockCalled = [c \in Callers |-> FALSE]
    /\ trace = [c \in Callers |-> <<>>]
    /\ hist = [ \* ids a successful lock call returned
                granted |-> {},
                \* ids for which a catalog unlock returned OK
                unlockedOK |-> {},
                \* ids ever passed to queueUnlock of the manager
                queued |-> [m \in Managers |-> {}],
                \* ids left in the batch when doTask returned inside the for loop
                abandoned |-> [m \in Managers |-> {}],
                \* a catalog unlock of the current iteration of doTask failed
                iterFailed |-> [m \in Managers |-> FALSE],
                \* a caller queued an id since the last swap of doTask
                iterEnq |-> [m \in Managers |-> FALSE],
                \* joins of the background thread made by shutDown calls
                sdJoins |-> [m \in Managers |-> 0],
                \* the ids doTask has passed to the catalog's unlock in the
                \* iteration it is in, in the order of the calls
                attempts |-> [m \in Managers |-> <<>>],
                \* the last wait_for of doTask returned on a spurious wake-up
                spurious |-> [m \in Managers |-> FALSE],
                \* the ids passed to grabLock, and the number of grabLock calls
                grabbed |-> {},
                grabs |-> 0,
                \* ids whose grabLock failed with a status other than
                \* LockStateChangeFailed, and ids whose grabLock returned it
                ambiguous |-> {},
                rejected |-> {},
                \* at the caller's last checkStatus: had it called unlock on the
                \* handle, had a catalog unlock of the handle returned OK, and
                \* what getLockByTS returned
                check |-> [c \in Callers |->
                             [unlockCalled |-> FALSE, unlockedOK |-> FALSE,
                              lookup |-> NoStatus]] ]

(* ------------------------------------------------------------------ *)
(* lock (lines 120-173)                                                 *)
(* ------------------------------------------------------------------ *)

\* The loop condition of line 128 with the clock at elapsed: lock goes on to
\* an attempt, or leaves the loop and returns LockBusy (line 172).
AfterLoopCheck(c, waitFor, elapsed) ==
    IF LoopContinues(waitFor, elapsed)
    THEN /\ cpc' = [cpc EXCEPT ![c] = "lockGrab"]
         /\ result' = [result EXCEPT ![c] = Result("lock", NoStatus, NoOID)]
    ELSE /\ cpc' = [cpc EXCEPT ![c] = "idle"]
         /\ result' = [result EXCEPT ![c] = Result("lock", LockBusy, NoOID)]

\* The call begins: Timer timer starts (lines 125-126) and the loop condition
\* is evaluated for the first time. A caller thread that holds a handle
\* unlocks it before it calls lock again.
LockCall(c, name, waitFor, lockTryInterval, cap) ==
    /\ cpc[c] = "idle"
    /\ handle[c] = NoOID \/ unlockCalled[c]
    /\ nextOID <= cap
    /\ callArgs' = [callArgs EXCEPT ![c] =
            [name |-> name, waitFor |-> waitFor, lockTryInterval |-> lockTryInterval]]
    /\ timer' = [timer EXCEPT ![c] = 0]
    /\ lockSessionID' = [lockSessionID EXCEPT ![c] = NoOID]
    /\ AfterLoopCheck(c, waitFor, 0)
    /\ trace' = [trace EXCEPT ![c] = <<>>]
    /\ UNCHANGED <<catVars, mgrVars, taskVars, sdVars, handle, unlockCalled, hist>>

\* One attempt (lines 129-157): a new session id, grabLock, and what follows
\* from its status up to the return, the break or the sleep.
LockGrab(c, out, cap) ==
    LET m == managerOf(c)
        id == AttemptOID(lockSessionID[c], nextOID)
        name == callArgs[c].name
        branch == LockBranch(out.status)
        grabbed == Event("grab", id, out.status, 0, timer[c])
        h == [hist EXCEPT
                !.grabbed = @ \cup {id},
                !.grabs = @ + 1,
                !.rejected = IF out.status = LockStateChangeFailed THEN @ \cup {id} ELSE @,
                !.ambiguous = IF out.status \notin {OK, LockStateChangeFailed}
                              THEN @ \cup {id} ELSE @]
    IN
    /\ cpc[c] = "lockGrab"
    /\ nextOID <= cap
    /\ out \in GrabOutcomes(lockDoc[name])
    /\ nextOID' = nextOID + 1
    /\ lockDoc' = GrabApply(lockDoc, name, id, out)
    /\ lockSessionID' = [lockSessionID EXCEPT ![c] = id]
    /\ CASE branch = "acquired" ->
              /\ cpc' = [cpc EXCEPT ![c] = "idle"]
              /\ result' = [result EXCEPT ![c] = Result("lock", OK, id)]
              /\ handle' = [handle EXCEPT ![c] = id]
              /\ unlockCalled' = [unlockCalled EXCEPT ![c] = FALSE]
              /\ trace' = [trace EXCEPT ![c] = Append(@, grabbed)]
              /\ hist' = [h EXCEPT !.granted = @ \cup {id}]
              /\ UNCHANGED unlockList
         [] branch = "ambiguous" ->
              /\ cpc' = [cpc EXCEPT ![c] = "idle"]
              /\ result' = [result EXCEPT ![c] = Result("lock", out.status, NoOID)]
              /\ unlockList' = [unlockList EXCEPT ![m] = queueUnlock(@, id)]
              /\ trace' = [trace EXCEPT ![c] =
                      Append(Append(@, grabbed), Event("enq", id, NoStatus, 0, timer[c]))]
              /\ hist' = [h EXCEPT !.queued[m] = @ \cup {id},
                                   !.iterEnq[m] = TRUE]
              /\ UNCHANGED <<handle, unlockCalled>>
         [] OTHER ->
              /\ IF BreaksAfterReject(callArgs[c].waitFor)
                 THEN /\ cpc' = [cpc EXCEPT ![c] = "idle"]
                      /\ result' = [result EXCEPT ![c] = Result("lock", LockBusy, NoOID)]
                 ELSE /\ cpc' = [cpc EXCEPT ![c] = "lockSleep"]
                      /\ UNCHANGED result
              /\ trace' = [trace EXCEPT ![c] = Append(@, grabbed)]
              /\ hist' = h
              /\ UNCHANGED <<unlockList, handle, unlockCalled>>
    /\ UNCHANGED <<isShutDown, execThread, taskVars, sdVars, callArgs, timer>>

\* The sleep between two attempts (lines 167-169) advances the clock; then the
\* loop condition is evaluated again.
LockSleep(c) ==
    LET d == SleepTime(callArgs[c].waitFor, callArgs[c].lockTryInterval, timer[c])
    IN
    /\ cpc[c] = "lockSleep"
    /\ timer' = [timer EXCEPT ![c] = @ + d]
    /\ trace' = [trace EXCEPT ![c] = Append(@, Event("sleep", NoOID, NoStatus, d, timer[c]))]
    /\ AfterLoopCheck(c, callArgs[c].waitFor, timer[c] + d)
    /\ UNCHANGED <<catVars, mgrVars, taskVars, sdVars, callArgs, lockSessionID,
                   handle, unlockCalled, hist>>

(* ------------------------------------------------------------------ *)
(* unlock (lines 175-181) and checkStatus (lines 183-196)               *)
(* ------------------------------------------------------------------ *)

\* unlock is called once on a handle (by its ScopedDistLock).
Unlock(c, out) ==
    LET m == managerOf(c)
        id == handle[c]
        called == Event("unlock", id, out.status, 0, 0)
    IN
    /\ cpc[c] = "idle"
    /\ id # NoOID
    /\ ~unlockCalled[c]
    /\ out \in UnlockOutcomes
    /\ lockDoc' = UnlockApply(lockDoc, id, out)
    /\ unlockCalled' = [unlockCalled EXCEPT ![c] = TRUE]
    /\ result' = [result EXCEPT ![c] = Result("unlock", NoStatus, id)]
    /\ IF UnlockFailed(out.status)
       THEN /\ unlockList' = [unlockList EXCEPT ![m] = queueUnlock(@, id)]
            /\ trace' = [trace EXCEPT ![c] = <<called, Event("enq", id, NoStatus, 0, 0)>>]
            /\ hist' = [hist EXCEPT !.queued[m] = @ \cup {id},
                                    !.iterEnq[m] = TRUE]
       ELSE /\ UNCHANGED unlockList
            /\ trace' = [trace EXCEPT ![c] = <<called>>]
            /\ hist' = [hist EXCEPT !.unlockedOK = @ \cup {id}]
    /\ UNCHANGED <<nextOID, isShutDown, execThread, taskVars, sdVars,
                   cpc, callArgs, timer, lockSessionID, handle>>

\* checkStatus is called on the handle of the caller's last successful lock,
\* before or after the handle was unlocked.
CheckStatus(c, lookup) ==
    LET id == handle[c] IN
    /\ cpc[c] = "idle"
    /\ id # NoOID
    /\ lookup \in LookupOutcomes(lockDoc, id)
    /\ result' = [result EXCEPT ![c] = Result("checkStatus", CheckStatusResult(lookup), id)]
    /\ trace' = [trace EXCEPT ![c] = <<Event("lookup", id, lookup.status, 0, 0)>>]
    /\ hist' = [hist EXCEPT !.check[c] =
                    [unlockCalled |-> unlockCalled[c],
                     unlockedOK |-> id \in hist.unlockedOK,
                     lookup |-> lookup.status]]
    /\ UNCHANGED <<catVars, mgrVars, taskVars, sdVars, cpc, callArgs, timer,
                   lockSessionID, handle, unlockCalled>>

(* ------------------------------------------------------------------ *)
(* startUp (lines 61-63) and shutDown (lines 65-84)                     *)
(* ------------------------------------------------------------------ *)

\* startUp is called at most once, and not while a shutDown call is reading
\* _execThread; the thread starts at the top of doTask.
StartUp(m) ==
    /\ ~started[m]
    /\ sdPc[m] = "idle"
    /\ started' = [started EXCEPT ![m] = TRUE]
    /\ execThread' = [execThread EXCEPT ![m] = "joinable"]
    /\ taskPc' = [taskPc EXCEPT ![m] = "loop"]
    /\ UNCHANGED <<catVars, isShutDown, unlockList, toUnlockBatch, batchIdx,
                   cvNotified, sdPc, sdCalls, callVars, trace, hist>>

\* Lines 66-70: under _mutex, set the flag and notify the condition variable;
\* a notification reaches the task only if it is waiting.
ShutDownSignal(m) ==
    /\ sdPc[m] = "idle"
    /\ isShutDown' = [isShutDown EXCEPT ![m] = TRUE]
    /\ cvNotified' = [cvNotified EXCEPT ![m] = (taskPc[m] = "waiting")]
    /\ sdPc' = [sdPc EXCEPT ![m] = "checkThread"]
    /\ UNCHANGED <<catVars, unlockList, execThread, taskPc, toUnlockBatch,
                   batchIdx, sdCalls, started, callVars, trace, hist>>

\* Line 74: is there a thread to join.
ShutDownCheckThread(m) ==
    /\ sdPc[m] = "checkThread"
    /\ sdPc' = [sdPc EXCEPT ![m] = IF JoinNeeded(execThread[m]) THEN "join" ELSE "stopPing"]
    /\ UNCHANGED <<catVars, mgrVars, taskVars, sdCalls, started, callVars, trace, hist>>

\* Lines 75-76: join returns once doTask has returned; then the handle is reset.
ShutDownJoin(m) ==
    /\ sdPc[m] = "join"
    /\ taskPc[m] = "done"
    /\ execThread' = [execThread EXCEPT ![m] = "null"]
    /\ sdPc' = [sdPc EXCEPT ![m] = "stopPing"]
    /\ hist' = [hist EXCEPT !.sdJoins[m] = @ + 1]
    /\ UNCHANGED <<catVars, isShutDown, unlockList, taskVars, sdCalls, started,
                   callVars, trace>>

\* Lines 79-83: stopPing; its failure is logged and shutDown returns.
ShutDownStopPing(m, status) ==
    /\ sdPc[m] = "stopPing"
    /\ status \in PingStatuses
    /\ sdPc' = [sdPc EXCEPT ![m] = "idle"]
    /\ sdCalls' = [sdCalls EXCEPT ![m] = Min(@ + 1, 2)]
    /\ UNCHANGED <<catVars, mgrVars, taskVars, started, callVars, trace, hist>>

(* ------------------------------------------------------------------ *)
(* doTask (lines 91-118)                                                *)
(* ------------------------------------------------------------------ *)

\* while (!isShutDown()), line 92, and, when the loop goes on, the ping of
\* line 93, whose status is not looked at.
TaskLoop(m, status) ==
    /\ taskPc[m] = "loop"
    /\ status \in PingStatuses
    /\ taskPc' = [taskPc EXCEPT ![m] = IF isShutDown[m] THEN "done" ELSE "swap"]
    /\ hist' = IF isShutDown[m] THEN [hist EXCEPT !.spurious[m] = FALSE] ELSE hist
    /\ UNCHANGED <<catVars, mgrVars, toUnlockBatch, batchIdx, cvNotified, sdVars,
                   callVars, trace>>

\* toUnlockBatch.swap(_unlockList) under _mutex, lines 95-99; then the for loop
\* begins, or, with an empty batch, the task goes on to the wait.
TaskSwap(m) ==
    /\ taskPc[m] = "swap"
    /\ toUnlockBatch' = [toUnlockBatch EXCEPT ![m] = unlockList[m]]
    /\ unlockList' = [unlockList EXCEPT ![m] = <<>>]
    /\ batchIdx' = [batchIdx EXCEPT ![m] = 1]
    /\ taskPc' = [taskPc EXCEPT ![m] = IF unlockList[m] = <<>> THEN "wait" ELSE "unlock"]
    /\ hist' = [hist EXCEPT !.iterFailed[m] = FALSE, !.iterEnq[m] = FALSE,
                            !.attempts[m] = <<>>, !.spurious[m] = FALSE]
    /\ UNCHANGED <<catVars, isShutDown, execThread, cvNotified, sdVars, callVars, trace>>

\* The requeue gone wrong: a failed entry is dropped, every entry is queued
\* again, and a failed entry is put at the front of the queue.
RequeueDrops(list, id, status) == list

RequeueFront(list, id, status) ==
    IF UnlockFailed(status) THEN <<id>> \o list ELSE list

RequeueAlways(list, id, status) == queueUnlock(list, id)

\* Lines 102-108: the catalog unlock of one batch entry, which is queued again
\* when the unlock failed.
RequeueFailed(list, id, status) ==
    IF UnlockFailed(status) THEN queueUnlock(list, id) ELSE list

TaskUnlock(m, out) ==
    LET toUnlock == toUnlockBatch[m][batchIdx[m]] IN
    /\ taskPc[m] = "unlock"
    /\ out \in UnlockOutcomes
    /\ lockDoc' = UnlockApply(lockDoc, toUnlock, out)
    /\ unlockList' = [unlockList EXCEPT ![m] = RequeueFailed(@, toUnlock, out.status)]
    /\ hist' = IF out.status # OK
               THEN [hist EXCEPT !.iterFailed[m] = TRUE,
                                 !.attempts[m] = Append(@, toUnlock)]
               ELSE [hist EXCEPT !.unlockedOK = @ \cup {toUnlock},
                                 !.attempts[m] = Append(@, toUnlock)]
    /\ taskPc' = [taskPc EXCEPT ![m] = "check"]
    /\ UNCHANGED <<nextOID, isShutDown, execThread, toUnlockBatch, batchIdx,
                   cvNotified, sdVars, callVars, trace>>

\* The check of line 110 gone wrong: the flag is not looked at inside the
\* for loop, the batch is finished first.
TaskCheckFinishesBatch(m) ==
    /\ taskPc[m] = "check"
    /\ batchIdx' = [batchIdx EXCEPT ![m] = @ + 1]
    /\ taskPc' = [taskPc EXCEPT ![m] =
            IF batchIdx[m] < Len(toUnlockBatch[m]) THEN "unlock" ELSE "wait"]
    /\ UNCHANGED <<catVars, mgrVars, toUnlockBatch, cvNotified, sdVars, callVars,
                   trace, hist>>

\* Lines 110-113: return when shut down, else go on with the for loop. The
\* batch is a local of the loop body: it is gone when doTask returns.
TaskCheck(m) ==
    /\ taskPc[m] = "check"
    /\ IF isShutDown[m]
       THEN /\ taskPc' = [taskPc EXCEPT ![m] = "done"]
            /\ toUnlockBatch' = [toUnlockBatch EXCEPT ![m] = <<>>]
            /\ batchIdx' = [batchIdx EXCEPT ![m] = 1]
            /\ hist' = [hist EXCEPT !.abandoned[m] =
                                        BatchRest(toUnlockBatch[m], batchIdx[m] + 1),
                                    !.attempts[m] = <<>>]
       ELSE /\ batchIdx' = [batchIdx EXCEPT ![m] = @ + 1]
            /\ taskPc' = [taskPc EXCEPT ![m] =
                    IF batchIdx[m] < Len(toUnlockBatch[m]) THEN "unlock" ELSE "wait"]
            /\ UNCHANGED <<toUnlockBatch, hist>>
    /\ UNCHANGED <<catVars, mgrVars, cvNotified, sdVars, callVars, trace>>

\* Lines 115-116: lock _mutex and begin to wait on _shutDownCV.
TaskWait(m) ==
    /\ taskPc[m] = "wait"
    /\ taskPc' = [taskPc EXCEPT ![m] = "waiting"]
    /\ cvNotified' = [cvNotified EXCEPT ![m] = FALSE]
    /\ UNCHANGED <<catVars, mgrVars, toUnlockBatch, batchIdx, sdVars, callVars,
                   trace, hist>>

\* Why a wait_for on a condition variable returns: the time is over, a
\* notify_all arrived, or for no reason at all (a spurious wake-up).
WakeReasons == {"timeout", "notified", "spurious"}

\* The wait gone wrong: an untimed wait, which only a notify_all ends.
TaskWakeOnNotifyOnly(m, reason) ==
    /\ taskPc[m] = "waiting"
    /\ reason = "notified"
    /\ cvNotified[m]
    /\ taskPc' = [taskPc EXCEPT ![m] = "loop"]
    /\ cvNotified' = [cvNotified EXCEPT ![m] = FALSE]
    /\ toUnlockBatch' = [toUnlockBatch EXCEPT ![m] = <<>>]
    /\ batchIdx' = [batchIdx EXCEPT ![m] = 1]
    /\ hist' = [hist EXCEPT !.attempts[m] = <<>>, !.spurious[m] = FALSE]
    /\ UNCHANGED <<catVars, mgrVars, sdVars, callVars, trace>>

\* wait_for returns: _pingInterval is over, the task was notified, or the wake
\* is spurious. The wait has no predicate, so in every case the loop body ends
\* (the batch goes out of scope) and the loop goes on at line 92.
TaskWake(m, reason) ==
    /\ taskPc[m] = "waiting"
    /\ reason \in WakeReasons
    /\ reason = "notified" => cvNotified[m]
    /\ taskPc' = [taskPc EXCEPT ![m] = "loop"]
    /\ cvNotified' = [cvNotified EXCEPT ![m] = FALSE]
    /\ toUnlockBatch' = [toUnlockBatch EXCEPT ![m] = <<>>]
    /\ batchIdx' = [batchIdx EXCEPT ![m] = 1]
    /\ hist' = [hist EXCEPT !.attempts[m] = <<>>,
                            !.spurious[m] = (reason = "spurious")]
    /\ UNCHANGED <<catVars, mgrVars, sdVars, callVars, trace>>

(* ------------------------------------------------------------------ *)
(* Specifications                                                       *)
(* ------------------------------------------------------------------ *)

\* Every status grabLock and unlock can return, with and without the write.
AllOutcomes ==
    {Outcome(s, a) : s \in {OK, LockStateChangeFailed} \cup CatalogErrors, a \in BOOLEAN}

AllLookups == [status : {OK, LockNotFound} \cup CatalogErrors, valid : BOOLEAN]

\* Spec: manager m1 with its background task, startUp and shutDown, its
\* caller c1, and caller c2 of manager m2, whose startUp is never called.
\* A lock call does not wait (waitFor 0) or has a budget of one tick; catalog
\* calls fail with NetworkTimeout.
SpecWaitFors == {0, 1}

SpecOutcomes == {out \in AllOutcomes : out.status # NotMaster}

CallerStep(c) ==
    \/ \E n \in LockNames, w \in SpecWaitFors : LockCall(c, n, w, 1, MaxOID)
    \/ \E out \in SpecOutcomes : LockGrab(c, out, MaxOID)
    \/ LockSleep(c)
    \/ \E out \in SpecOutcomes : Unlock(c, out)

ManagerStep(m) ==
    \/ StartUp(m)
    \/ ShutDownSignal(m)
    \/ ShutDownCheckThread(m)
    \/ ShutDownJoin(m)
    \/ \E status \in PingStatuses : ShutDownStopPing(m, status)

TaskStep(m) ==
    \/ \E status \in PingStatuses : TaskLoop(m, status)
    \/ TaskSwap(m)
    \/ \E out \in SpecOutcomes : TaskUnlock(m, out)
    \/ TaskCheck(m)
    \/ TaskWait(m)
    \/ \E reason \in WakeReasons : TaskWake(m, reason)

Next ==
    \/ \E c \in Callers : CallerStep(c)
    \/ ManagerStep("m1")
    \/ TaskStep("m1")

Spec == Init /\ [][Next]_vars

\* SpecLock: the callers alone (no startUp, no shutDown). Caller c1 calls lock
\* with waitFor from -1 (no limit) to MaxWaitFor and lockTryInterval from 1 to
\* MaxTryInterval; caller c2 contends for the lock without waiting.
LockWaitFors == (0 - 1)..MaxWaitFor

LockTryIntervals == 1..MaxTryInterval

LockCallerStep(c) ==
    \/ \E out \in AllOutcomes : LockGrab(c, out, MaxLockOID)
    \/ LockSleep(c)
    \/ \E out \in SpecOutcomes : Unlock(c, out)

NextLock ==
    \/ \E n \in LockNames, w \in LockWaitFors, i \in LockTryIntervals :
            LockCall("c1", n, w, i, MaxLockOID)
    \/ \E n \in LockNames : LockCall("c2", n, 0, 1, MaxLockOID)
    \/ \E c \in Callers : LockCallerStep(c)

SpecLock == Init /\ [][NextLock]_vars

\* SpecLock with the scheduling a running lock call has: the thread goes on
\* running, and a catalog call returns.
FairSpecLock ==
    /\ SpecLock
    /\ \A c \in Callers :
          /\ WF_vars(LockSleep(c))
          /\ WF_vars(\E out \in AllOutcomes : LockGrab(c, out, MaxLockOID))

\* SpecCheck: the callers alone, each locking without waiting, unlocking and
\* calling checkStatus on the handle it got.
CheckCallerStep(c) ==
    \/ \E n \in LockNames : LockCall(c, n, 0, 1, MaxLockOID)
    \/ \E out \in SpecOutcomes : LockGrab(c, out, MaxLockOID)
    \/ \E out \in SpecOutcomes : Unlock(c, out)
    \/ \E lookup \in AllLookups : CheckStatus(c, lookup)

NextCheck == \E c \in Callers : CheckCallerStep(c)

SpecCheck == Init /\ [][NextCheck]_vars

\* SpecTask: manager m1 with startUp, shutDown and its background task, and
\* its caller c1, which locks without waiting and unlocks.
TaskCallerStep(c) ==
    \/ \E n \in LockNames : LockCall(c, n, 0, 1, MaxTaskOID)
    \/ \E out \in SpecOutcomes : LockGrab(c, out, MaxTaskOID)
    \/ \E out \in SpecOutcomes : Unlock(c, out)

NextTask ==
    \/ TaskCallerStep("c1")
    \/ ManagerStep("m1")
    \/ TaskStep("m1")

SpecTask == Init /\ [][NextTask]_vars

\* The steps of a shutDown call after its critical section.
ShutDownRun(m) ==
    \/ ShutDownCheckThread(m)
    \/ ShutDownJoin(m)
    \/ \E status \in PingStatuses : ShutDownStopPing(m, status)

\* SpecTask with the scheduling the two threads have: the background thread
\* goes on running (its catalog calls return, its timed wait ends at the
\* latest when _pingInterval is over), and so does a thread inside shutDown.
FairSpecTask ==
    /\ SpecTask
    /\ WF_vars(TaskStep("m1"))
    /\ WF_vars(ShutDownRun("m1"))

\* FairSpecTask with a catalog whose unlock, tried again and again by the
\* background task, succeeds in the end.
FairSpecRetry ==
    /\ FairSpecTask
    /\ SF_vars(\E out \in SpecOutcomes : out.status = OK /\ TaskUnlock("m1", out))

(* ------------------------------------------------------------------ *)
(* Properties                                                           *)
(* ------------------------------------------------------------------ *)

\* The caller holds its handle: lock returned it and the caller has not
\* passed it to unlock.
Holds(c) == handle[c] # NoOID /\ ~unlockCalled[c]

\* The handles of a lock name that are unreleased: held by their caller, and
\* no catalog unlock of them has returned OK.
Unreleased(name) ==
    {handle[c] : c \in {d \in Callers : Holds(d) /\ callArgs[d].name = name}}
        \ hist.unlockedOK

\* C1: mutual exclusion. For every lock name, at most one session id that a
\* successful lock call returned is unreleased, whatever the callers of the
\* managers and the background retries of queued unlocks do.
C1_MutualExclusion ==
    \A name \in LockNames : Cardinality(Unreleased(name)) <= 1

\* C1 happens: one caller holds the lock while the lock call of the other, on
\* the same name, was cleanly rejected and returned LockBusy.
C1_Witness ==
    \E c, d \in Callers :
        /\ c # d
        /\ Holds(c)
        /\ callArgs[d].name = callArgs[c].name
        /\ result[d] = Result("lock", LockBusy, NoOID)
        /\ \E i \in 1..Len(trace[d]) :
               trace[d][i].ev = "grab" /\ trace[d][i].status = LockStateChangeFailed

\* The events of one kind in a caller's trace, as the set of their positions.
EventsAt(c, ev) == {i \in 1..Len(trace[c]) : trace[c][i].ev = ev}

\* The trace is that of a lock call (in progress, or the caller's last call).
InLock(c) == result[c].op = "lock"

Returned(c) == cpc[c] = "idle"

\* C2: an ambiguous failure of grabLock (any status but OK and
\* LockStateChangeFailed) ends the lock call at once, at every attempt and for
\* every waitFor: the failed grab is the last catalog call of the call, no
\* sleep follows it, lock returns the status grabLock gave, and the session id
\* of the attempt was passed to queueUnlock once and is in the manager's
\* pending-unlock queue exactly once.
C2_AmbiguousFailureReturns ==
    \A c \in Callers : \A i \in EventsAt(c, "grab") :
        trace[c][i].status \notin {OK, LockStateChangeFailed} =>
            LET id == trace[c][i].id
                queue == unlockList[managerOf(c)]
            IN
            /\ Returned(c)
            /\ result[c] = Result("lock", trace[c][i].status, NoOID)
            /\ Len(trace[c]) = i + 1
            /\ trace[c][i + 1].ev = "enq" /\ trace[c][i + 1].id = id
            /\ EventsAt(c, "enq") = {i + 1}
            /\ Cardinality({j \in 1..Len(queue) : queue[j] = id}) = 1

\* C2 happens: a lock call with a positive waitFor was cleanly rejected, slept,
\* and then failed ambiguously at its second attempt.
C2_Witness ==
    \E c \in Callers :
        /\ InLock(c) /\ Returned(c)
        /\ callArgs[c].waitFor > 0
        /\ result[c].status \in CatalogErrors
        /\ Len(trace[c]) = 4
        /\ trace[c][1].status = LockStateChangeFailed
        /\ trace[c][2].ev = "sleep"

\* C6: a lock call with waitFor = 0 makes exactly one grabLock call and never
\* sleeps; it returns the new handle when the grab succeeds and LockBusy when
\* the grab is cleanly rejected.
C6_NoWaitSingleAttempt ==
    \A c \in Callers :
        (InLock(c) /\ callArgs[c].waitFor = 0) =>
            /\ cpc[c] # "lockSleep"
            /\ EventsAt(c, "sleep") = {}
            /\ Cardinality(EventsAt(c, "grab")) <= 1
            /\ Returned(c) =>
                  /\ EventsAt(c, "grab") = {1}
                  /\ trace[c][1].status = OK =>
                        /\ result[c] = Result("lock", OK, trace[c][1].id)
                        /\ handle[c] = trace[c][1].id
                  /\ trace[c][1].status = LockStateChangeFailed =>
                        result[c] = Result("lock", LockBusy, NoOID)

\* C6 happens: a lock call with waitFor = 0 was cleanly rejected and returned
\* LockBusy after its single attempt.
C6_Witness ==
    \E c \in Callers :
        /\ InLock(c) /\ Returned(c)
        /\ callArgs[c].waitFor = 0
        /\ Len(trace[c]) = 1
        /\ trace[c][1].status = LockStateChangeFailed
        /\ result[c].status = LockBusy

\* Every grab of the caller's lock call was cleanly rejected.
AllRejected(c) ==
    \A i \in EventsAt(c, "grab") : trace[c][i].status = LockStateChangeFailed

\* What C7 says of every state of a lock call with waitFor = T > 0.
BusyWithinBudget(c) ==
    LET T == callArgs[c].waitFor
        I == callArgs[c].lockTryInterval
    IN
    /\ result[c].status = LockBusy => (timer[c] >= T /\ timer[c] <= T + I)
    /\ \A i \in EventsAt(c, "sleep") :
           trace[c][i].dur = Min(I, Max(0, T - trace[c][i].at))
    /\ timer[c] <= T
    /\ Cardinality(EventsAt(c, "grab")) <= (T + I - 1) \div I
    /\ (Returned(c) /\ AllRejected(c)) => result[c].status = LockBusy

\* C7: with waitFor = T > 0, on the clock that the sleeps of the call advance:
\* lock returns LockBusy only at an elapsed time of at least T and at most
\* T + lockTryInterval; each sleep lasts min(lockTryInterval, max(0, T - elapsed));
\* the clock never passes T and the call makes at most ceil(T / lockTryInterval)
\* attempts; when every grab was cleanly rejected the call that ended returned
\* LockBusy; and the call does end (unless the run has no session id left for
\* its next attempt).
C7_BusyWithinBudget ==
    /\ [](\A c \in Callers : (InLock(c) /\ callArgs[c].waitFor > 0) => BusyWithinBudget(c))
    /\ \A c \in Callers :
          (~Returned(c) /\ callArgs[c].waitFor > 0)
              ~> (Returned(c) \/ nextOID > MaxLockOID)

\* C7 happens: every grab was rejected and lock returned LockBusy after a last
\* sleep that was cut short to what was left of the budget.
C7_Witness ==
    \E c \in Callers :
        /\ InLock(c) /\ Returned(c) /\ AllRejected(c)
        /\ callArgs[c].waitFor > 0
        /\ result[c].status = LockBusy
        /\ timer[c] = callArgs[c].waitFor
        /\ \E i \in EventsAt(c, "sleep") :
               trace[c][i].dur > 0 /\ trace[c][i].dur < callArgs[c].lockTryInterval

\* C8: clean rejections are retried within the budget. A lock call with
\* waitFor = T > 0 that returned success after k clean rejections made k + 1
\* grabs and k sleeps in turn, each sleep a full lockTryInterval, with
\* k * lockTryInterval < T; its handle is the session id of the last grab; none
\* of the k rejected ids was queued for unlock. And the call does not give up
\* early: it returns LockBusy only when the sleeps made no longer fit strictly
\* inside T.
C8_RetriesUntilSuccess ==
    \A c \in Callers :
        (InLock(c) /\ Returned(c) /\ callArgs[c].waitFor > 0) =>
            LET T == callArgs[c].waitFor
                I == callArgs[c].lockTryInterval
                n == Len(trace[c])
                k == Cardinality(EventsAt(c, "sleep"))
                m == managerOf(c)
            IN
            /\ result[c].status = OK =>
                  /\ n = 2 * k + 1
                  /\ \A j \in 1..k :
                        /\ trace[c][2 * j - 1].ev = "grab"
                        /\ trace[c][2 * j - 1].status = LockStateChangeFailed
                        /\ trace[c][2 * j - 1].id \notin hist.queued[m]
                        /\ trace[c][2 * j - 1].id \notin Ids(unlockList[m])
                        /\ trace[c][2 * j].ev = "sleep"
                        /\ trace[c][2 * j].dur = I
                  /\ trace[c][n].ev = "grab" /\ trace[c][n].status = OK
                  /\ k * I < T
                  /\ handle[c] = trace[c][n].id
                  /\ result[c].id = trace[c][n].id
                  /\ lockSessionID[c] = trace[c][n].id
            /\ result[c].status = LockBusy => ~(k * I < T)

\* C8 happens: a lock call was rejected, slept, and acquired the lock at its
\* second attempt.
C8_Witness ==
    \E c \in Callers :
        /\ InLock(c) /\ Returned(c)
        /\ callArgs[c].waitFor > 0
        /\ result[c].status = OK
        /\ Len(trace[c]) >= 3

\* C3: unlock(handle) makes one catalog unlock call; when the call fails the
\* handle is appended once to the pending-unlock queue of the manager, when it
\* succeeds the queue is left as it was; in both cases unlock returns, and
\* returns no status.
C3_UnlockQueuesOnFailure ==
    [][\A c \in Callers :
          (~unlockCalled[c] /\ unlockCalled'[c]) =>
              LET m == managerOf(c)
                  id == handle[c]
                  unlocks == {i \in 1..Len(trace'[c]) : trace'[c][i].ev = "unlock"}
              IN
              /\ unlocks = {1}
              /\ trace'[c][1].id = id
              /\ trace'[c][1].status # OK => unlockList'[m] = Append(unlockList[m], id)
              /\ trace'[c][1].status = OK => unlockList'[m] = unlockList[m]
              /\ cpc'[c] = "idle"
              /\ result'[c] = Result("unlock", NoStatus, id)
      ]_vars

\* C3 happens: the catalog unlock of an unlock call failed and the handle is
\* in the queue of the caller's manager.
C3_Witness ==
    \E c \in Callers :
        /\ result[c].op = "unlock"
        /\ trace[c][1].status \in CatalogErrors
        /\ handle[c] \in Ids(unlockList[managerOf(c)])

\* The ids the manager owes the catalog an unlock for: passed to queueUnlock,
\* and no catalog unlock of them has returned OK.
Owed(m) == hist.queued[m] \ hist.unlockedOK

\* C4 as claimed: in every state every owed id is in the live queue or in the
\* batch the background task is processing, under every interleaving of lock,
\* unlock, the background task and shutDown.
C4_NoPendingUnlockLost ==
    \A m \in Managers : Owed(m) \subseteq Ids(unlockList[m]) \cup Ids(toUnlockBatch[m])

\* C4, amended: every owed id is in the live queue or in the batch the
\* background task is processing, except the ids doTask had not yet attempted
\* when it returned at the shutdown check inside its for loop (lines 110-112):
\* those are only in the batch, which is gone. So as long as no catalog unlock
\* succeeds and the task does not return that way, the owed ids present never
\* get fewer.
C4_NoPendingUnlockLostUntilShutDown ==
    \A m \in Managers :
        /\ Owed(m) \subseteq
              Ids(unlockList[m]) \cup Ids(toUnlockBatch[m]) \cup hist.abandoned[m]
        /\ hist.abandoned[m] # {} => (taskPc[m] = "done" /\ isShutDown[m])

\* C4 happens: a background retry failed and the id, still owed, is back in
\* the live queue.
C4_Witness ==
    \E m \in Managers : \E id \in Owed(m) :
        /\ hist.iterFailed[m]
        /\ id \in Ids(toUnlockBatch[m])
        /\ id \in Ids(unlockList[m])

\* C5: when every catalog unlock of an iteration of doTask succeeded and the
\* task was not shut down in it, then once the batch is processed none of the
\* ids swapped out is in the queue, each of them was unlocked, and the queue
\* is empty unless a caller queued an id since the swap.
C5_BatchDrained ==
    \A m \in Managers :
        (taskPc[m] \in {"wait", "waiting"} /\ ~hist.iterFailed[m]) =>
            /\ Ids(toUnlockBatch[m]) \cap Ids(unlockList[m]) = {}
            /\ Ids(toUnlockBatch[m]) \subseteq hist.unlockedOK
            /\ ~hist.iterEnq[m] => unlockList[m] = <<>>

\* C5 happens: an iteration swapped out a queue that was not empty, every
\* unlock succeeded, and the task is about to wait with an empty queue.
C5_Witness ==
    \E m \in Managers :
        /\ taskPc[m] = "wait"
        /\ ~hist.iterFailed[m]
        /\ ~hist.iterEnq[m]
        /\ toUnlockBatch[m] # <<>>
        /\ unlockList[m] = <<>>

C10_ShutDownAgain ==
    \A m \in Managers :
        /\ sdPc[m] = "join" => execThread[m] = "joinable"
        /\ hist.sdJoins[m] <= 1
        /\ ~started[m] => (sdPc[m] # "join" /\ hist.sdJoins[m] = 0)
        /\ hist.sdJoins[m] = 1 => (sdPc[m] # "join" /\ execThread[m] = "null")
        /\ (sdPc[m] # "idle" \/ sdCalls[m] >= 1) => isShutDown[m]

\* C10 happens: a second shutDown call returned after the first had joined the
\* background thread.
C10_Witness ==
    \E m \in Managers :
        /\ sdCalls[m] = 2
        /\ sdPc[m] = "idle"
        /\ hist.sdJoins[m] = 1

\* C11: shutDown terminates and does not deadlock with the background task.
\* With every catalog call returning and both threads running, a shutDown
\* call, at whatever point of its cycle it finds the task, comes to its end,
\* and at the step it returns the task has terminated (or was never started);
\* while shutDown waits in join the task is never stuck: it has returned from
\* doTask or has a step to take.
C11_ShutDownTerminates ==
    /\ LET m == "m1" IN
       sdPc[m] # "idle" ~> (sdPc[m] = "idle" /\ taskPc[m] \in {"none", "done"})
    /\ [](\A m \in Managers :
            sdPc[m] = "join" => (taskPc[m] = "done" \/ ENABLED TaskStep(m)))
    /\ [][\A m \in Managers :
            (sdPc[m] # "idle" /\ sdPc'[m] = "idle") => taskPc'[m] \in {"none", "done"}
        ]_vars

\* C11 happens: shutDown was called while the task was inside a batch, joined
\* the thread and returned.
C11_Witness ==
    \E m \in Managers :
        /\ sdPc[m] = "idle"
        /\ sdCalls[m] = 1
        /\ hist.sdJoins[m] = 1
        /\ taskPc[m] = "done"
        /\ hist.abandoned[m] # {}

\* C12: the shutdown signal always wakes the background task. Once shutDown
\* has set the flag and notified, the task is never in its timed wait with
\* nothing to end the wait but the timeout: it neither begins the wait after
\* the signal nor stays in it with the notification lost.
C12_NoLostWakeUp ==
    \A m \in Managers :
        ~(taskPc[m] = "waiting" /\ isShutDown[m] /\ ~cvNotified[m])

\* C13: a spurious wake-up of the timed wait does not start a new iteration.
\* The task never issues the ping of an iteration (it is past line 93, at the
\* swap) when its last wait ended on a spurious wake-up, that is, before
\* _pingInterval was over and without a shutdown signal.
C13_NoEarlyIteration ==
    \A m \in Managers : ~(taskPc[m] = "swap" /\ hist.spurious[m])

\* C14: inside a batch the task checks the shutdown flag after each catalog
\* unlock and returns at once when it is set. Every catalog unlock of the task
\* is followed by the check; a check that finds the flag set ends doTask,
\* leaving the rest of the batch unattempted; and once doTask has returned the
\* task takes no further step: no catalog unlock and no ping.
C14_ExitsAtOnce ==
    [][\A m \in Managers :
          /\ (taskPc[m] = "unlock" /\ taskPc'[m] # "unlock") => taskPc'[m] = "check"
          /\ (taskPc[m] = "check" /\ isShutDown[m] /\ taskPc'[m] # "check") =>
                /\ taskPc'[m] = "done"
                /\ hist'.abandoned[m] = BatchRest(toUnlockBatch[m], batchIdx[m] + 1)
                /\ hist'.unlockedOK = hist.unlockedOK
                /\ unlockList'[m] = unlockList[m]
          /\ taskPc[m] = "done" =>
                /\ taskPc'[m] = "done"
                /\ hist'.attempts[m] = <<>>
                /\ hist'.abandoned[m] = hist.abandoned[m]
      ]_vars

\* C14 happens: the task returned at the check inside the for loop, and ids of
\* the batch it had not attempted are still owed an unlock.
C14_Witness ==
    \E m \in Managers :
        /\ taskPc[m] = "done"
        /\ hist.abandoned[m] # {}
        /\ hist.abandoned[m] \subseteq Owed(m)
        /\ sdPc[m] = "join"

\* One sequence is the beginning of the other.
IsPrefix(a, b) == Len(a) <= Len(b) /\ SubSeq(b, 1, Len(a)) = a

\* The number of entries of its batch the task has attempted, from where it is.
Attempted(m) ==
    CASE taskPc[m] = "unlock" -> batchIdx[m] - 1
      [] taskPc[m] = "check" -> batchIdx[m]
      [] taskPc[m] \in {"wait", "waiting"} -> Len(toUnlockBatch[m])
      [] OTHER -> 0

\* C15: in an iteration of doTask the ids attempted so far are the beginning
\* of the batch, one attempt each in queue order, all of the batch when the
\* wait is reached, and no id is twice in the batch; an id whose attempt failed
\* is in the live queue, where the attempt appended it behind whatever was
\* there, so the next swap takes it; the batch is what the swap took out of
\* the queue and does not change during the iteration; and no step but the
\* swap takes anything out of the live queue, so an id a caller queues during
\* the iteration stays there and is not attempted before the next swap.
C15_OneAttemptInOrder ==
    /\ [](\A m \in Managers :
            /\ hist.attempts[m] = SubSeq(toUnlockBatch[m], 1, Attempted(m))
            /\ Cardinality(Ids(toUnlockBatch[m])) = Len(toUnlockBatch[m])
            /\ \A id \in Ids(hist.attempts[m]) \ hist.unlockedOK :
                   id \in Ids(unlockList[m]))
    /\ [][\A m \in Managers :
            /\ Len(hist'.attempts[m]) = Len(hist.attempts[m]) + 1 =>
                  LET id == toUnlockBatch[m][batchIdx[m]] IN
                  /\ hist'.attempts[m] = Append(hist.attempts[m], id)
                  /\ unlockList'[m] =
                        IF id \in hist'.unlockedOK
                        THEN unlockList[m]
                        ELSE Append(unlockList[m], id)
            /\ IF taskPc[m] = "swap" /\ taskPc'[m] # "swap"
               THEN toUnlockBatch'[m] = unlockList[m] /\ unlockList'[m] = <<>>
               ELSE IsPrefix(unlockList[m], unlockList'[m])
            /\ (taskPc[m] \in {"unlock", "check"} /\ taskPc'[m] # "done") =>
                  toUnlockBatch'[m] = toUnlockBatch[m]
        ]_vars

\* C15 happens: an attempt of the iteration failed and its id is in the live
\* queue behind an id that a caller queued after the swap.
C15_Witness ==
    \E m \in Managers :
        /\ taskPc[m] \in {"check", "unlock", "wait"}
        /\ Len(unlockList[m]) = 2
        /\ unlockList[m][2] \in Ids(hist.attempts[m])
        /\ unlockList[m][1] \notin Ids(toUnlockBatch[m])

\* C16 as claimed: every id that is ever passed to queueUnlock of manager m1
\* once its startUp was called gets a catalog unlock that returns OK in the end,
\* whether it was queued before, during or after a shutDown call, given a
\* catalog whose unlock succeeds in the end when retried.
C16_EveryQueuedUnlockSucceeds ==
    LET m == "m1" IN
    \A id \in 1..MaxTaskOID :
        (started[m] /\ id \in hist.queued[m]) ~> id \in hist.unlockedOK

\* C16, amended: every id passed to queueUnlock of manager m1 once its startUp
\* was called gets a catalog unlock that returns OK in the end, or shutDown is
\* called on the manager before that: the retries go on for as long as the
\* manager is not shut down, and stop with the background task.
C16_QueuedUnlockSucceedsUnlessShutDown ==
    LET m == "m1" IN
    \A id \in 1..MaxTaskOID :
        (started[m] /\ id \in hist.queued[m])
            ~> (id \in hist.unlockedOK \/ isShutDown[m])

\* C16 happens: the id of an ambiguous grab, which no caller ever unlocks, was
\* queued and then unlocked by the background task of a manager not shut
\* down, in an iteration in which the retry of another id failed.
C16_Witness ==
    \E m \in Managers : \E id \in hist.ambiguous :
        /\ started[m] /\ ~isShutDown[m]
        /\ id \in hist.queued[m]
        /\ id \in hist.unlockedOK
        /\ id \in Ids(hist.attempts[m])
        /\ hist.iterFailed[m]
        /\ unlockList[m] # <<>>

\* C17: lock returns LockBusy in two situations only: waitFor is zero and the
\* single grab of the call was cleanly rejected, or waitFor is positive and
\* the loop condition, evaluated after a sleep, found the elapsed time to have
\* reached waitFor. With a negative waitFor lock never returns LockBusy, the
\* clock of the call stays at zero and every sleep has length zero, each clean
\* rejection is followed by such a sleep and another attempt, and as long as
\* every grab is cleanly rejected the call does not return.
C17_BusyOnlyWhenOutOfBudget ==
    \A c \in Callers :
        InLock(c) =>
            LET T == callArgs[c].waitFor
                n == Len(trace[c])
            IN
            /\ (Returned(c) /\ result[c].status = LockBusy) =>
                  \/ /\ T = 0
                     /\ n = 1
                     /\ trace[c][1].ev = "grab"
                     /\ trace[c][1].status = LockStateChangeFailed
                  \/ /\ T > 0
                     /\ n >= 2
                     /\ trace[c][n].ev = "sleep"
                     /\ timer[c] >= T
                     /\ AllRejected(c)
            /\ T < 0 =>
                  /\ result[c].status # LockBusy
                  /\ timer[c] = 0
                  /\ \A i \in EventsAt(c, "sleep") : trace[c][i].dur = 0
                  /\ \A i \in EventsAt(c, "grab") :
                        trace[c][i].status = LockStateChangeFailed =>
                            /\ i = n => cpc[c] = "lockSleep"
                            /\ i < n => trace[c][i + 1].ev = "sleep"
                  /\ AllRejected(c) => ~Returned(c)

\* C17 happens: a lock call with a negative waitFor was cleanly rejected
\* twice, slept for no time after each rejection, and is at its next attempt.
C17_Witness ==
    \E c \in Callers :
        /\ InLock(c)
        /\ callArgs[c].waitFor < 0
        /\ AllRejected(c)
        /\ Cardinality(EventsAt(c, "grab")) = 2
        /\ Cardinality(EventsAt(c, "sleep")) = 2
        /\ cpc[c] = "lockGrab"

\* C18: every grabLock call is made with a session id of its own. The number
\* of grabLock calls made so far, by all lock calls of all callers, is the
\* number of distinct ids passed to grabLock; the grabs of the calls in
\* progress or last made, retries of one call included, have pairwise distinct
\* ids; and an id has one outcome only: it is never granted, rejected or
\* failed ambiguously after it was rejected or failed ambiguously once.
C18_FreshSessionIds ==
    /\ Cardinality(hist.grabbed) = hist.grabs
    /\ \A c, d \in Callers :
          \A i \in EventsAt(c, "grab") : \A j \in EventsAt(d, "grab") :
              (c # d \/ i # j) => trace[c][i].id # trace[d][j].id
    /\ hist.granted \cap hist.rejected = {}
    /\ hist.granted \cap hist.ambiguous = {}
    /\ hist.rejected \cap hist.ambiguous = {}
    /\ hist.granted \cup hist.rejected \cup hist.ambiguous = hist.grabbed

\* C18 happens: three grabLock calls were made, two of them by one lock call
\* that retried after a clean rejection.
C18_Witness ==
    /\ hist.grabs = 3
    /\ \E c \in Callers :
          /\ InLock(c)
          /\ Cardinality(EventsAt(c, "grab")) = 2
          /\ trace[c][1].status = LockStateChangeFailed

\* C19: shutDown calls stopPing only after the background task has stopped.
\* When shutDown is at its stopPing call the task has returned from doTask or
\* was never started, and the call can return any status; whatever the status,
\* shutDown then returns. From then on the flag is set and the task issues
\* no ping and no catalog unlock: it is not running, or, started afterwards,
\* is at the loop condition, which ends it.
C19_StopPingAfterTask ==
    /\ [](\A m \in Managers :
            /\ sdPc[m] = "stopPing" =>
                  /\ taskPc[m] \in {"none", "done"}
                  /\ \A status \in PingStatuses : ENABLED ShutDownStopPing(m, status)
            /\ sdCalls[m] >= 1 =>
                  /\ isShutDown[m]
                  /\ taskPc[m] \in {"none", "loop", "done"}
                  /\ hist.attempts[m] = <<>>)
    /\ [][\A m \in Managers :
            /\ (sdPc[m] = "stopPing" /\ sdPc'[m] # "stopPing") =>
                  (sdPc'[m] = "idle" /\ sdCalls'[m] >= 1)
            /\ (sdCalls[m] >= 1 /\ taskPc'[m] # taskPc[m]) =>
                  taskPc'[m] \in {"loop", "done"}
        ]_vars

\* C19 happens: shutDown joined the background thread, made its stopPing call
\* and returned, and ids are left in the queue that nobody retries.
C19_Witness ==
    \E m \in Managers :
        /\ sdCalls[m] = 1
        /\ sdPc[m] = "idle"
        /\ hist.sdJoins[m] = 1
        /\ taskPc[m] = "done"
        /\ unlockList[m] # <<>>

\* The handles their callers hold.
Held == {handle[c] : c \in {d \in Callers : Holds(d)}}

\* C20: the background task never releases a lock a caller holds. Every id in
\* the pending-unlock queue of a manager or in the batch of its task is the
\* id of a grab that failed ambiguously or a handle that lock returned and
\* that was passed to unlock since; none is a handle a caller holds, and
\* none is the id of a cleanly rejected grab. So no catalog unlock of the
\* task, made or about to be made, is of a held handle.
C20_QueueHoldsNoHeldLock ==
    \A m \in Managers :
        LET pending == Ids(unlockList[m]) \cup Ids(toUnlockBatch[m]) IN
        /\ pending \subseteq hist.ambiguous \cup (hist.granted \ Held)
        /\ pending \cap Held = {}
        /\ pending \cap hist.rejected = {}
        /\ Ids(hist.attempts[m]) \cap Held = {}
        /\ Held \subseteq hist.granted

\* C20 happens: a caller holds the lock, its id in the lock document, while
\* the background task is about to unlock the id of an ambiguous grab.
C20_Witness ==
    \E m \in Managers : \E c \in Callers :
        /\ Holds(c)
        /\ lockDoc[callArgs[c].name] = handle[c]
        /\ taskPc[m] = "unlock"
        /\ toUnlockBatch[m][batchIdx[m]] \in hist.ambiguous

====
